---- MODULE Spec2Model ----
(***************************************************************************)
(* A model of src/fetch-analytics/utils.py: the column renamer             *)
(* (pd_rename_cols), the column-name sanitizer                             *)
(* (pd_cols_remove_special_characters), the column-width estimator         *)
(* (calc_col_lengths) and the line-delimited JSON loader (load_json).      *)
(*                                                                         *)
(* Each function is a call on arguments chosen by Init; the call's steps   *)
(* are the actions.  A table (DataFrame) is a sequence of columns          *)
(* [name, data]; a dict is a sequence of <<key, value>> pairs with         *)
(* distinct keys, in insertion order.                                      *)
(***************************************************************************)
EXTENDS Integers, Sequences, FiniteSets, TLC

VARIABLES
    pc,               \* position of the call
    err,              \* exception that left the call, "none" when there is none
    log,              \* records handed to the logging module, in order
    df,               \* the table argument (mutated in place)
    df0,              \* the table as it was on entry
    rename_map,       \* pd_rename_cols: the caller's dict (mutated in place)
    map0,             \* pd_rename_cols: the dict as it was on entry
    override,         \* pd_rename_cols: flag
    ignore_missing,   \* pd_rename_cols: flag
    df_cols,          \* pd_rename_cols: the local set(df.columns)
    missing_keys,     \* pd_rename_cols: the local list, also the raised message
    cols,             \* sanitizer: the cols argument (given or None, and the list)
    remove_characters,\* sanitizer: the special-character string
    replace_char,     \* sanitizer: the replacement character
    after1,           \* sanitizer: the table after the first of two calls
    col_lengths_map,  \* calc_col_lengths: the dict built and returned
    idx,              \* calc_col_lengths: position of the loop over df_cols
    lines,            \* load_json: the lines read from the file so far
    result,           \* load_json: the list the comprehension has built
    ret               \* load_json: what the caller receives

vars == <<pc, err, log, df, df0, rename_map, map0, override, ignore_missing,
          df_cols, missing_keys, cols, remove_characters, replace_char,
          after1, col_lengths_map, idx, lines, result, ret>>

renameVars == <<rename_map, map0, override, ignore_missing, df_cols, missing_keys>>
sanitizeVars == <<cols, remove_characters, replace_char, after1>>
widthVars == <<col_lengths_map, idx>>
loadVars == <<lines, result, ret>>

(***************************************************************************)
(* Bounds of the model.                                                    *)
(***************************************************************************)
MaxCols == 3          \* columns of a table handed to pd_rename_cols
MaxMap == 2           \* entries of a rename_map

ColNames == {"a", "b", "c"}      \* column names and rename targets
KeyNames == {"a", "b", "x"}      \* rename_map keys; "x" is never a column

\* Nothing has been returned to the caller.
NoValue == [some |-> FALSE, val |-> <<>>]
Returned(v) == [some |-> TRUE, val |-> v]

Elements(s) == {s[i] : i \in DOMAIN s}

RECURSIVE SeqsUpTo(_, _)
SeqsUpTo(S, n) ==
    IF n = 0 THEN {<<>>}
    ELSE LET shorter == SeqsUpTo(S, n - 1)
         IN  shorter \cup {Append(s, x) : s \in shorter, x \in S}

(***************************************************************************)
(* Tables and dicts.                                                       *)
(***************************************************************************)
\* list(df.columns)
Columns(t) == [i \in DOMAIN t |-> t[i].name]

\* set(df.columns)
ColumnSet(t) == {t[i].name : i \in DOMAIN t}

\* A fresh table with the given column names; a column's data is identified
\* by the position the column had on entry.
MakeTable(names) == [i \in DOMAIN names |-> [name |-> names[i], data |-> i]]

\* del df[col]: drops every column labelled col.
DelItem(t, col) == SelectSeq(t, LAMBDA c : c.name # col)

\* dict keys / values, in insertion order
Keys(m) == [i \in DOMAIN m |-> m[i][1]]
Values(m) == [i \in DOMAIN m |-> m[i][2]]
KeySet(m) == {m[i][1] : i \in DOMAIN m}
ValueSet(m) == {m[i][2] : i \in DOMAIN m}

\* m.get(k, k)
Lookup(m, k) ==
    IF k \in KeySet(m)
    THEN m[CHOOSE i \in DOMAIN m : m[i][1] = k][2]
    ELSE k

\* del m[key]
DelKey(m, key) == SelectSeq(m, LAMBDA e : e[1] # key)

\* df.rename(columns=m, inplace=True): every label that is a key of m is
\* replaced by its value, all at once; keys that label no column are ignored.
DfRename(t, m) == [i \in DOMAIN t |-> [t[i] EXCEPT !.name = Lookup(m, @)]]

\* Dicts with at most n entries, keys drawn from K and values from V.
Dicts(K, V, n) ==
    {m \in SeqsUpTo(K \X V, n) :
        \A i, j \in DOMAIN m : m[i][1] = m[j][1] => i = j}

(***************************************************************************)
(* pd_rename_cols                                                          *)
(***************************************************************************)
\* The override loop: for out_col in rename_map.values():
\*                        if out_col in df_cols: del df[out_col]
\* del raises KeyError when the label is no longer a column.
RECURSIVE OverrideLoop(_, _, _)
OverrideLoop(t, vals, cs) ==
    IF vals = <<>> THEN [df |-> t, err |-> "none"]
    ELSE IF Head(vals) \in cs
         THEN IF Head(vals) \in ColumnSet(t)
              THEN OverrideLoop(DelItem(t, Head(vals)), Tail(vals), cs)
              ELSE [df |-> t, err |-> "KeyError"]
         ELSE OverrideLoop(t, Tail(vals), cs)

\* Lines 247-250: the warning that names the colliding target.
DupeWarning(col) == [level |-> "warning", what |-> "dupe", col |-> col]

\* Mutant of WarnLoop: the collision is not reported.
WarnLoopSilent(vals, cs) == <<>>

\* The warning loop: one warning for each value that is in df_cols.
RECURSIVE WarnLoop(_, _)
WarnLoop(vals, cs) ==
    IF vals = <<>> THEN <<>>
    ELSE (IF Head(vals) \in cs
          THEN <<DupeWarning(Head(vals))>>
          ELSE <<>>) \o WarnLoop(Tail(vals), cs)

\* missing_keys = [k for k in rename_map if k not in df_cols]
MissingKeys(m, cs) == SelectSeq(Keys(m), LAMBDA k : k \notin cs)

\* Mutant of Prune: the missing keys stay in the caller's dict.
PruneNothing(m, missing) == m

\* for key in missing_keys: del rename_map[key]
RECURSIVE Prune(_, _)
Prune(m, missing) ==
    IF missing = <<>> THEN m
    ELSE Prune(DelKey(m, Head(missing)), Tail(missing))

InitRename ==
    /\ \E names \in SeqsUpTo(ColNames, MaxCols) :
          /\ df = MakeTable(names)
          /\ df0 = MakeTable(names)
    /\ \E m \in Dicts(KeyNames, ColNames, MaxMap) :
          /\ rename_map = m
          /\ map0 = m
    /\ override \in BOOLEAN
    /\ ignore_missing \in BOOLEAN
    /\ pc = "call"
    /\ err = "none"
    /\ log = <<>>
    /\ df_cols = {}
    /\ missing_keys = <<>>
    /\ cols = [given |-> FALSE, list |-> <<>>]
    /\ remove_characters = <<>>
    /\ replace_char = "_"
    /\ after1 = <<>>
    /\ col_lengths_map = <<>>
    /\ idx = 0
    /\ lines = <<>>
    /\ result = <<>>
    /\ ret = NoValue

\* Lines 234-236: a table without columns is returned as it is.
RenameEmpty ==
    /\ pc = "call"
    /\ Columns(df) = <<>>
    /\ log' = Append(log, [level |-> "warning", what |-> "empty", col |-> "pd_rename_cols"])
    /\ pc' = "returned"
    /\ UNCHANGED <<err, df, df0, renameVars, sanitizeVars, widthVars, loadVars>>

\* Lines 238-243: df_cols is taken, then the colliding targets are deleted.
RenameOverride ==
    /\ pc = "call"
    /\ Columns(df) # <<>>
    /\ override
    /\ df_cols' = ColumnSet(df)
    /\ LET r == OverrideLoop(df, Values(rename_map), ColumnSet(df))
       IN  /\ df' = r.df
           /\ err' = r.err
           /\ pc' = IF r.err = "none" THEN "check" ELSE "raised"
    /\ UNCHANGED <<log, df0, rename_map, map0, override, ignore_missing,
                   missing_keys, sanitizeVars, widthVars, loadVars>>

\* Lines 238, 244-250: df_cols is taken, then the colliding targets are logged.
RenameWarn ==
    /\ pc = "call"
    /\ Columns(df) # <<>>
    /\ ~override
    /\ df_cols' = ColumnSet(df)
    /\ log' = log \o WarnLoop(Values(rename_map), ColumnSet(df))
    /\ pc' = "check"
    /\ UNCHANGED <<err, df, df0, rename_map, map0, override, ignore_missing,
                   missing_keys, sanitizeVars, widthVars, loadVars>>

\* Lines 252-258: the missing keys are pruned from the dict or reported.
RenameCheck ==
    /\ pc = "check"
    /\ missing_keys' = MissingKeys(rename_map, df_cols)
    /\ IF missing_keys' = <<>>
       THEN /\ pc' = "rename"
            /\ UNCHANGED <<err, rename_map>>
       ELSE IF ignore_missing
            THEN /\ rename_map' = Prune(rename_map, missing_keys')
                 /\ pc' = "rename"
                 /\ UNCHANGED err
            ELSE /\ err' = "MissingKeys"
                 /\ pc' = "raised"
                 /\ UNCHANGED rename_map
    /\ UNCHANGED <<log, df, df0, map0, override, ignore_missing, df_cols,
                   sanitizeVars, widthVars, loadVars>>

\* Lines 260-261: the rename itself.
RenameApply ==
    /\ pc = "rename"
    /\ df' = DfRename(df, rename_map)
    /\ pc' = "returned"
    /\ UNCHANGED <<err, log, df0, renameVars, sanitizeVars, widthVars, loadVars>>

NextRename ==
    \/ RenameEmpty
    \/ RenameOverride
    \/ RenameWarn
    \/ RenameCheck
    \/ RenameApply

SpecRename == InitRename /\ [][NextRename]_vars

(***************************************************************************)
(* pd_cols_remove_special_characters                                       *)
(*                                                                         *)
(* Here a column name is a sequence of characters.  The pattern is the     *)
(* f-string "[" + remove_characters + "]" handed to re.sub, so the model   *)
(* parses it as the re module does: a character set (negation, ranges,     *)
(* escapes, the rule that "]" closes the set unless it comes first) and,   *)
(* when the set closes early, the rest of the pattern after it.            *)
(***************************************************************************)
MaxNameLen == 3       \* characters of a column name
MaxSanCols == 2       \* columns of a table handed to the sanitizer
MaxSpecialLen == 2    \* characters of a generated remove_characters

NameChars == {"A", "#", ".", "]"}
ShortNameChars == {"A", "#"}
SpecialChars == {"#", "]", "^", "-"}
ReplaceChars == {"_", "#", "\\"}

\* The default of remove_characters, line 170: the Python literal
\* '#@&$%^()-/\\\\' is these twelve characters.
DefaultSpecial ==
    <<"#", "@", "&", "$", "%", "^", "(", ")", "-", "/", "\\", "\\">>

\* ord() of the characters of the model.
Ord(ch) ==
    CASE ch = "#" -> 35 [] ch = "$" -> 36 [] ch = "%" -> 37 [] ch = "&" -> 38
      [] ch = "(" -> 40 [] ch = ")" -> 41 [] ch = "*" -> 42 [] ch = "+" -> 43
      [] ch = "," -> 44 [] ch = "-" -> 45 [] ch = "." -> 46 [] ch = "/" -> 47
      [] ch = "@" -> 64 [] ch = "A" -> 65 [] ch = "\\" -> 92 [] ch = "]" -> 93
      [] ch = "^" -> 94 [] ch = "_" -> 95

Letters == {"A"}

\* sre_parse, the body of a character set: the loop over the set's items,
\* from position i of pattern p.  lo..hi ranges are kept as pairs of code
\* points in items.  The result is the set (ok), the position after its
\* closing "]", or ok = FALSE for re.error.
RECURSIVE ParseSet(_, _, _)
ParseSet(p, i, items) ==
    IF i > Len(p) THEN [ok |-> FALSE]                 \* unterminated set
    ELSE IF p[i] = "]" /\ items # {} THEN [ok |-> TRUE, items |-> items, next |-> i + 1]
    ELSE IF p[i] = "\\" /\ i + 1 > Len(p) THEN [ok |-> FALSE]
    ELSE IF p[i] = "\\" /\ p[i + 1] \in Letters THEN [ok |-> FALSE]   \* bad escape
    ELSE
      LET esc1 == p[i] = "\\"
          c1 == IF esc1 THEN Ord(p[i + 1]) ELSE Ord(p[i])
          j == IF esc1 THEN i + 2 ELSE i + 1
      IN  IF j <= Len(p) /\ p[j] = "-"
          THEN IF j + 1 > Len(p) THEN [ok |-> FALSE]
               ELSE IF p[j + 1] = "]"
                    THEN [ok |-> TRUE,
                          items |-> items \cup {<<c1, c1>>, <<Ord("-"), Ord("-")>>},
                          next |-> j + 2]
               ELSE IF p[j + 1] = "\\" /\ j + 2 > Len(p) THEN [ok |-> FALSE]
               ELSE IF p[j + 1] = "\\" /\ p[j + 2] \in Letters THEN [ok |-> FALSE]
               ELSE
                 LET esc2 == p[j + 1] = "\\"
                     c2 == IF esc2 THEN Ord(p[j + 2]) ELSE Ord(p[j + 1])
                     k == IF esc2 THEN j + 3 ELSE j + 2
                 IN  IF c2 < c1 THEN [ok |-> FALSE]    \* bad character range
                     ELSE ParseSet(p, k, items \cup {<<c1, c2>>})
          ELSE ParseSet(p, j, items \cup {<<c1, c1>>})

\* re.compile(f"[{remove_characters}]"): the set, whether it is negated,
\* and the literal rest of the pattern after the set.
Compile(special) ==
    LET p == <<"[">> \o special \o <<"]">>
        negate == Len(p) >= 2 /\ p[2] = "^"
        set == ParseSet(p, IF negate THEN 3 ELSE 2, {})
    IN  IF set.ok
        THEN [ok |-> TRUE, negate |-> negate, items |-> set.items,
              rest |-> SubSeq(p, set.next, Len(p))]
        ELSE [ok |-> FALSE]

\* Whether character ch is matched by the compiled set.
InSet(re, ch) ==
    (\E r \in re.items : r[1] <= Ord(ch) /\ Ord(ch) <= r[2]) # re.negate

\* Whether the pattern matches s at position i: one character of the set,
\* then the rest of the pattern, character by character ("^" in the rest
\* asserts the start of the string, which position i + 1 never is).
MatchAt(re, s, i) ==
    /\ InSet(re, s[i])
    /\ i + Len(re.rest) <= Len(s)
    /\ \A k \in DOMAIN re.rest :
          re.rest[k] # "^" /\ s[i + k] = re.rest[k]

\* re.sub(pattern, repl, s) from position i: leftmost non-overlapping
\* matches are replaced by repl.
RECURSIVE ReSub(_, _, _, _)
ReSub(re, repl, s, i) ==
    IF i > Len(s) THEN <<>>
    ELSE IF MatchAt(re, s, i)
         THEN <<repl>> \o ReSub(re, repl, s, i + 1 + Len(re.rest))
         ELSE <<s[i]>> \o ReSub(re, repl, s, i + 1)

\* re.sub raises re.error for a pattern that does not compile and for the
\* replacement template "\".
SubRaises(special, repl) == ~Compile(special).ok \/ repl = "\\"

\* Lines 196-198: no cols (None or an empty list) means every column.
TargetCols(t, c) == IF c.given /\ c.list # <<>> THEN c.list ELSE Columns(t)

\* Lines 200-204: the rename mapping, one entry per targeted name.
SanitizeMap(targets, special, repl) ==
    [i \in DOMAIN targets |->
        <<targets[i], ReSub(Compile(special), repl, targets[i], 1)>>]

SanNames == SeqsUpTo(NameChars, MaxNameLen)
ShortNames == SeqsUpTo(ShortNameChars, 1)

\* Tables of the sanitizer: the first column has any name, the others a
\* short one.
SanTables ==
    {<<>>} \cup
    {<<n>> \o rest : n \in SanNames, rest \in SeqsUpTo(ShortNames, MaxSanCols - 1)}

Specials == SeqsUpTo(SpecialChars, MaxSpecialLen) \cup {DefaultSpecial}

InitSanitize ==
    /\ \E names \in SanTables :
          /\ df = MakeTable(names)
          /\ df0 = MakeTable(names)
          /\ cols \in {[given |-> FALSE, list |-> <<>>], [given |-> TRUE, list |-> <<>>]}
                        \cup {[given |-> TRUE, list |-> <<names[i]>>] : i \in DOMAIN names}
    /\ remove_characters \in Specials
    /\ replace_char \in ReplaceChars
    /\ pc = "call1"
    /\ err = "none"
    /\ log = <<>>
    /\ after1 = <<>>
    /\ rename_map = <<>>
    /\ map0 = <<>>
    /\ override = FALSE
    /\ ignore_missing = FALSE
    /\ df_cols = {}
    /\ missing_keys = <<>>
    /\ col_lengths_map = <<>>
    /\ idx = 0
    /\ lines = <<>>
    /\ result = <<>>
    /\ ret = NoValue

AfterCall == IF pc = "call1" THEN "call2" ELSE "done"

\* Lines 188-192: a table without columns is returned as it is.
SanitizeEmpty ==
    /\ pc \in {"call1", "call2"}
    /\ Columns(df) = <<>>
    /\ log' = Append(log, [level |-> "warning", what |-> "empty",
                           col |-> "pd_cols_remove_special_characters"])
    /\ pc' = AfterCall
    /\ after1' = IF pc = "call1" THEN df ELSE after1
    /\ UNCHANGED <<err, df, df0, renameVars, cols, remove_characters,
                   replace_char, widthVars, loadVars>>

\* Lines 194-203: re.sub raises inside the loop, before any rename.
SanitizeRaise ==
    /\ pc \in {"call1", "call2"}
    /\ Columns(df) # <<>>
    /\ SubRaises(remove_characters, replace_char)
    /\ log' = Append(log, [level |-> "info", what |-> "removing", col |-> "all"])
    /\ err' = "re.error"
    /\ pc' = "raised"
    /\ UNCHANGED <<df, df0, renameVars, sanitizeVars, widthVars, loadVars>>

\* Lines 194-209: the mapping is built and applied.
SanitizeApply ==
    /\ pc \in {"call1", "call2"}
    /\ Columns(df) # <<>>
    /\ ~SubRaises(remove_characters, replace_char)
    /\ log' = Append(log, [level |-> "info", what |-> "removing", col |-> "all"])
    /\ df' = DfRename(df, SanitizeMap(TargetCols(df, cols), remove_characters,
                                      replace_char))
    /\ after1' = IF pc = "call1" THEN df' ELSE after1
    /\ pc' = AfterCall
    /\ UNCHANGED <<err, df0, renameVars, cols, remove_characters,
                   replace_char, widthVars, loadVars>>

NextSanitize ==
    \/ SanitizeEmpty
    \/ SanitizeRaise
    \/ SanitizeApply

SpecSanitize == InitSanitize /\ [][NextSanitize]_vars

(***************************************************************************)
(* calc_col_lengths                                                        *)
(*                                                                         *)
(* Here a column's data is its sequence of cell values.  A value is null,  *)
(* an integer, or a string; a string is a sequence of runs [ch, n]: the    *)
(* character ch repeated n times.  The character "U+00E9" is a printable   *)
(* non-ASCII character (two bytes in UTF-8).                               *)
(***************************************************************************)
MaxRows == 2          \* rows of a table handed to calc_col_lengths

WidthColNames == <<"p", "q">>

Null == [kind |-> "null", n |-> 0, runs |-> <<>>]
IntVal(n) == [kind |-> "int", n |-> n, runs |-> <<>>]
StrVal(runs) == [kind |-> "str", n |-> 0, runs |-> runs]
Run(ch, n) == [ch |-> ch, n |-> n]

\* The cell values of the model.
WidthValues ==
    { Null,
      IntVal(-12),
      StrVal(<<>>),
      StrVal(<<Run("'", 1)>>),
      StrVal(<<Run("'", 1), Run("\"", 1)>>),
      StrVal(<<Run("\\", 1), Run("U+00E9", 1)>>),
      StrVal(<<Run("a", 100)>>),
      StrVal(<<Run("a", 199), Run("\n", 1)>>) }

\* Series.isnull()
IsNull(v) == v.kind = "null"

\* The decimal digits of a natural number, as runs.
RECURSIVE Digits(_)
Digits(n) ==
    IF n < 10 THEN <<Run("digit", 1)>>
    ELSE Digits(n \div 10) \o <<Run("digit", 1)>>

\* .astype('str'): str() of the value.
AsStr(v) ==
    IF v.kind = "str" THEN v.runs
    ELSE IF v.n < 0 THEN <<Run("-", 1)>> \o Digits(-v.n)
    ELSE Digits(v.n)

HasChar(s, ch) == \E i \in DOMAIN s : s[i].ch = ch /\ s[i].n > 0

\* repr() of a str delimits it with ' unless it holds a ' and no ".
ReprQuote(s) == IF HasChar(s, "'") /\ ~HasChar(s, "\"") THEN "\"" ELSE "'"

\* UTF-8 bytes one character takes inside repr(): backslash, newline and the
\* delimiting quote are escaped with a backslash.
ReprCharBytes(ch, quote) ==
    CASE ch = "\\" -> 2
      [] ch = "\n" -> 2
      [] ch = "U+00E9" -> 2
      [] ch = quote -> 2
      [] OTHER -> 1

RECURSIVE SumRuns(_, _)
SumRuns(s, quote) ==
    IF s = <<>> THEN 0
    ELSE Head(s).n * ReprCharBytes(Head(s).ch, quote) + SumRuns(Tail(s), quote)

\* Lines 31-43 and 50: len(repr(val)[1:-1].encode('utf-8')), the quotes
\* that repr puts around the text being cut off.
ToLiteralLen(s) == SumRuns(s, ReprQuote(s))

\* Lines 47-50: the lengths of the non-null values of a column.
LiteralLens(values) ==
    LET kept == SelectSeq(values, LAMBDA v : ~IsNull(v))
    IN  [i \in DOMAIN kept |-> ToLiteralLen(AsStr(kept[i]))]

\* A number as Series.max() returns it: an integer, or NaN.
NaN == [nan |-> TRUE, v |-> 0]
Num(v) == [nan |-> FALSE, v |-> v]

\* Mutant of SeriesMax: the first length instead of the largest.
SeriesFirst(lens) ==
    IF lens = <<>> THEN NaN ELSE Num(lens[1])

\* Line 51: Series.max(), NaN for a series without values.
SeriesMax(lens) ==
    IF lens = <<>> THEN NaN
    ELSE Num(CHOOSE m \in Elements(lens) : \A x \in Elements(lens) : x <= m)

\* Mutant of IsNumber: NaN is not taken for a number.
IsFiniteNumber(x) == ~x.nan

\* Line 57: isinstance(max_length, Number) holds of an integer and of NaN.
IsNumber(x) == x.nan \/ ~x.nan

\* Lines 55-63: int(max_length + max_length * 0.01), 0 when int() raises
\* ValueError, which it does for NaN.
BufferedInt(x) ==
    IF x.nan THEN 0 ELSE x.v + (x.v \div 100)

\* df.empty: no column or no row.
DfEmpty(t) == IF Len(t) = 0 THEN TRUE ELSE Len(t[1].data) = 0

\* Tables with the first k column names and n rows.
WidthTables ==
    {[i \in 1..k |-> [name |-> WidthColNames[i], data |-> cells[i]]] :
        k \in 0..Len(WidthColNames), cells \in UNION
            {[1..Len(WidthColNames) -> [1..n -> WidthValues]] : n \in 0..MaxRows}}

InitWidth ==
    /\ df \in WidthTables
    /\ df0 = df
    /\ pc = "call"
    /\ err = "none"
    /\ log = <<>>
    /\ col_lengths_map = <<>>
    /\ idx = 0
    /\ df_cols = {}
    /\ rename_map = <<>>
    /\ map0 = <<>>
    /\ override = FALSE
    /\ ignore_missing = FALSE
    /\ missing_keys = <<>>
    /\ cols = [given |-> FALSE, list |-> <<>>]
    /\ remove_characters = <<>>
    /\ replace_char = "_"
    /\ after1 = <<>>
    /\ lines = <<>>
    /\ result = <<>>
    /\ ret = NoValue

\* Lines 25-26: an empty table yields an empty dict.
WidthEmpty ==
    /\ pc = "call"
    /\ DfEmpty(df)
    /\ pc' = "returned"
    /\ UNCHANGED <<err, log, df, df0, renameVars, sanitizeVars, widthVars, loadVars>>

\* Lines 28-29: the column list and the empty result.
WidthStart ==
    /\ pc = "call"
    /\ ~DfEmpty(df)
    /\ df_cols' = Columns(df)
    /\ col_lengths_map' = <<>>
    /\ idx' = 1
    /\ pc' = "loop"
    /\ UNCHANGED <<err, log, df, df0, rename_map, map0, override, ignore_missing,
                   missing_keys, sanitizeVars, loadVars>>

\* Lines 45-63: one pass of the loop over the columns.
WidthColumn ==
    /\ pc = "loop"
    /\ idx <= Len(df_cols)
    /\ LET max_length == SeriesMax(LiteralLens(df[idx].data))
       IN  col_lengths_map' =
              IF IsNumber(max_length)
              THEN Append(col_lengths_map, <<df_cols[idx], BufferedInt(max_length)>>)
              ELSE col_lengths_map
    /\ idx' = idx + 1
    /\ UNCHANGED <<pc, err, log, df, df0, renameVars, sanitizeVars, loadVars>>

\* Line 65.
WidthReturn ==
    /\ pc = "loop"
    /\ idx > Len(df_cols)
    /\ pc' = "returned"
    /\ UNCHANGED <<err, log, df, df0, renameVars, sanitizeVars, widthVars, loadVars>>

NextWidth ==
    \/ WidthEmpty
    \/ WidthStart
    \/ WidthColumn
    \/ WidthReturn

SpecWidth == InitWidth /\ [][NextWidth]_vars

(***************************************************************************)
(* load_json                                                               *)
(*                                                                         *)
(* A line is the sequence of its characters before the line break; the     *)
(* file is read one line at a time, as the comprehension reads it.         *)
(* Loads is json.loads on the JSON texts the model's characters can form:  *)
(* integers, arrays, whitespace.                                           *)
(***************************************************************************)
MaxLineLen == 3       \* characters of a line
MaxLines == 2         \* lines of a file

JsonChars == {"0", "1", "[", "]"}
JsonDigits == {"0", "1"}

\* A decoded JSON value: an integer or a list of values.
JsonInt(n) == [t |-> "int", v |-> n, items |-> <<>>]
JsonList(items) == [t |-> "list", v |-> 0, items |-> items]

Fail == [ok |-> FALSE, val |-> JsonInt(0), next |-> 0]
Ok(val, next) == [ok |-> TRUE, val |-> val, next |-> next]

DigitValue(ch) == IF ch = "0" THEN 0 ELSE 1

IsWhitespace(ch) == ch \in {" ", "\n"}

\* json.decoder WHITESPACE.match(s, i).end()
RECURSIVE SkipWhitespace(_, _)
SkipWhitespace(s, i) ==
    IF i <= Len(s) /\ IsWhitespace(s[i]) THEN SkipWhitespace(s, i + 1) ELSE i

\* The digits after a leading non-zero digit: NUMBER_RE's [1-9]\d*.
RECURSIVE ScanDigits(_, _, _)
ScanDigits(s, i, acc) ==
    IF i <= Len(s) /\ s[i] \in JsonDigits
    THEN ScanDigits(s, i + 1, 10 * acc + DigitValue(s[i]))
    ELSE Ok(JsonInt(acc), i)

\* json.scanner scan_once and json.decoder JSONArray.
RECURSIVE ScanOnce(_, _)
RECURSIVE ScanArray(_, _, _)
ScanOnce(s, i) ==
    IF i > Len(s) THEN Fail
    ELSE IF s[i] = "["
         THEN LET j == SkipWhitespace(s, i + 1)
              IN  IF j <= Len(s) /\ s[j] = "]"
                  THEN Ok(JsonList(<<>>), j + 1)
                  ELSE ScanArray(s, j, <<>>)
    ELSE IF s[i] = "0" THEN Ok(JsonInt(0), i + 1)
    ELSE IF s[i] \in JsonDigits THEN ScanDigits(s, i, 0)
    ELSE Fail

ScanArray(s, i, items) ==
    LET r == ScanOnce(s, i)
    IN  IF ~r.ok THEN Fail
        ELSE LET j == SkipWhitespace(s, r.next)
             IN  IF j > Len(s) THEN Fail
                 ELSE IF s[j] = "]" THEN Ok(JsonList(Append(items, r.val)), j + 1)
                 ELSE IF s[j] = ","
                      THEN ScanArray(s, SkipWhitespace(s, j + 1), Append(items, r.val))
                 ELSE Fail

\* json.loads(line): the line as the file iterator yields it, line break
\* included; anything but whitespace after the value is "Extra data".
Loads(line) ==
    LET s == line \o <<"\n">>
        r == ScanOnce(s, SkipWhitespace(s, 1))
    IN  IF r.ok /\ SkipWhitespace(s, r.next) > Len(s) THEN r ELSE Fail

\* Mutant of Collect: the decoded value is put in front.
CollectInFront(acc, value) == <<value>> \o acc

\* The list comprehension's append.
Collect(acc, value) == Append(acc, value)

JsonLines == SeqsUpTo(JsonChars, MaxLineLen)

\* The lines json.loads decodes.
DecodableLines == {line \in JsonLines : Loads(line).ok}

InitLoad ==
    /\ lines = <<>>
    /\ result = <<>>
    /\ ret = NoValue
    /\ pc = "reading"
    /\ err = "none"
    /\ log = <<>>
    /\ df = <<>>
    /\ df0 = <<>>
    /\ col_lengths_map = <<>>
    /\ idx = 0
    /\ df_cols = {}
    /\ rename_map = <<>>
    /\ map0 = <<>>
    /\ override = FALSE
    /\ ignore_missing = FALSE
    /\ missing_keys = <<>>
    /\ cols = [given |-> FALSE, list |-> <<>>]
    /\ remove_characters = <<>>
    /\ replace_char = "_"
    /\ after1 = <<>>

\* Line 69: the next line of the file decodes and joins the list.
LoadLine ==
    /\ pc = "reading"
    /\ Len(lines) < MaxLines
    /\ \E line \in DecodableLines :
          /\ lines' = Append(lines, line)
          /\ result' = Collect(result, Loads(line).val)
    /\ UNCHANGED <<pc, err, log, df, df0, ret, renameVars, sanitizeVars, widthVars>>

\* Line 69: the next line does not decode; json.loads raises and the list
\* under construction is dropped with the frame.
LoadBadLine ==
    /\ pc = "reading"
    /\ Len(lines) < MaxLines
    /\ \E line \in JsonLines \ DecodableLines :
          lines' = Append(lines, line)
    /\ err' = "JSONDecodeError"
    /\ pc' = "raised"
    /\ UNCHANGED <<log, df, df0, result, ret, renameVars, sanitizeVars, widthVars>>

\* Lines 68-69: the file is exhausted and the list is returned.
LoadReturn ==
    /\ pc = "reading"
    /\ ret' = Returned(result)
    /\ pc' = "returned"
    /\ UNCHANGED <<err, log, df, df0, lines, result, renameVars, sanitizeVars, widthVars>>

NextLoad ==
    \/ LoadLine
    \/ LoadBadLine
    \/ LoadReturn

SpecLoad == InitLoad /\ [][NextLoad]_vars

(***************************************************************************)
(* Properties of pd_rename_cols                                            *)
(***************************************************************************)
Names0 == ColumnSet(df0)

\* Entry positions of the columns that are neither a key nor a target.
Bystanders ==
    {i \in DOMAIN df0 : df0[i].name \notin (KeySet(map0) \cup ValueSet(map0))}

\* C1: with ignore_missing=False, once the call has reached the missing-key
\* check, it raises the missing-keys error if and only if some key of
\* rename_map labels no column of the table as it is at that check (after
\* the override deletions), and the message lists exactly those keys.
C1_RaisesIffKeyAbsentAtCheck ==
    (/\ ~ignore_missing
     /\ pc \in {"rename", "raised"}
     /\ err # "KeyError")
    => LET absent == {k \in KeySet(map0) : k \notin ColumnSet(df)}
       IN  /\ (err = "MissingKeys") <=> (absent # {})
           /\ (err = "MissingKeys") => (Elements(missing_keys) = absent)

\* C9: whenever the missing-keys error is raised, the table and the
\* caller's rename_map are exactly as they were on entry.
C9_RaiseLeavesArgumentsUntouched ==
    (err = "MissingKeys") => (df = df0 /\ rename_map = map0)

\* C10: with override=True, distinct targets and a table whose column names
\* are distinct, a call that returns leaves, for every key k that was a
\* column on entry, exactly one column named rename_map[k], holding the data
\* column k held on entry; and a column is dropped only if its name is a
\* target and not a key being renamed.
C10_OverrideKeepsRenamedData ==
    (/\ override
     /\ pc = "returned"
     /\ df0 # <<>>
     /\ \A i, j \in DOMAIN map0 : map0[i][2] = map0[j][2] => i = j
     /\ \A i, j \in DOMAIN df0 : df0[i].name = df0[j].name => i = j)
    => /\ \A i \in DOMAIN df0 :
            df0[i].name \in KeySet(map0)
            => /\ Cardinality({j \in DOMAIN df :
                      df[j].name = Lookup(map0, df0[i].name)}) = 1
               /\ \E j \in DOMAIN df :
                      df[j] = [name |-> Lookup(map0, df0[i].name), data |-> i]
       /\ \A i \in DOMAIN df0 :
            (\A j \in DOMAIN df : df[j].data # i)
            => /\ df0[i].name \in ValueSet(map0)
               /\ df0[i].name \notin KeySet(map0)

\* C2 (as amended): with ignore_missing=True on a table with a column the
\* missing-keys error is never raised; when the call returns, rename_map is
\* the entry dict restricted to the keys that were columns on entry (when
\* the override deletion raises KeyError the dict is left as it was); the
\* columns that are neither a key nor a target keep their names, their data
\* and their order among themselves; with override=False they keep their
\* positions, with override=True each moves left by the number of deleted
\* target columns in front of it.
C2_IgnoreMissingPrunesMap ==
    (/\ ignore_missing
     /\ df0 # <<>>
     /\ pc \in {"returned", "raised"})
    => /\ err # "MissingKeys"
       /\ pc = "returned" =>
            rename_map = SelectSeq(map0, LAMBDA e : e[1] \in Names0)
       /\ pc = "raised" => rename_map = map0
       /\ SelectSeq(df, LAMBDA c : c.data \in Bystanders)
            = SelectSeq(df0, LAMBDA c : c.data \in Bystanders)
       /\ ~override =>
            \A i \in Bystanders : i \in DOMAIN df /\ df[i] = df0[i]
       /\ (override /\ pc = "returned") =>
            \A i \in Bystanders :
               LET gone == {j \in 1..(i - 1) : df0[j].name \in ValueSet(map0)}
                   k == i - Cardinality(gone)
               IN  k \in DOMAIN df /\ df[k] = df0[i]

\* C2 (as claimed): ... every column that is neither a key nor a target keeps
\* its name, its position and its data.
C2_BystandersKeepPosition ==
    (/\ ignore_missing
     /\ df0 # <<>>
     /\ pc = "returned")
    => /\ rename_map = SelectSeq(map0, LAMBDA e : e[1] \in Names0)
       /\ \A i \in Bystanders : i \in DOMAIN df /\ df[i] = df0[i]

\* A key missing from the table was pruned, a target column was deleted in
\* front of a bystander, and the call returned.
C2_Witness ==
    /\ ignore_missing
    /\ override
    /\ pc = "returned"
    /\ KeySet(map0) \ Names0 # {}
    /\ KeySet(map0) \cap Names0 # {}
    /\ \E i \in Bystanders : \E j \in DOMAIN df : j < i /\ df[j] = df0[i]

\* Entries of the entry dict whose key is a column and whose target already
\* is a column.
Collisions ==
    {i \in DOMAIN map0 : map0[i][1] \in Names0 /\ map0[i][2] \in Names0}

\* C3 (as amended): with override=False, for an entry whose key is a column
\* and whose target already is a column: a warning naming the target is
\* logged and no column is deleted; the call fails only with the
\* missing-keys error, when ignore_missing=False and some key is no column,
\* and then the table is untouched; when it returns, the column count is
\* unchanged and the source column carries the target name with its data,
\* and every pre-existing column of that name still carries it with its own
\* data provided the target is not itself a key of rename_map.
C3_DupeIsWarnedAndRenamed ==
    (/\ ~override
     /\ pc \in {"returned", "raised"})
    => \A e \in Collisions :
         LET k == map0[e][1]
             t == map0[e][2]
         IN  /\ DupeWarning(t) \in Elements(log)
             /\ Len(df) = Len(df0)
             /\ (pc = "raised") <=>
                    (~ignore_missing /\ ~(KeySet(map0) \subseteq Names0))
             /\ pc = "raised" => (err = "MissingKeys" /\ df = df0)
             /\ pc = "returned" =>
                  /\ \A i \in DOMAIN df0 :
                        df0[i].name = k => df[i] = [name |-> t, data |-> i]
                  /\ t \notin KeySet(map0) =>
                        \A i \in DOMAIN df0 : df0[i].name = t => df[i] = df0[i]

\* C3 (as claimed): the call does not fail, the warning is logged, no column
\* is deleted, and afterwards two columns carry the target name: the
\* pre-existing one with its own data and the renamed one with the source
\* column's data.
C3_DupeAlwaysYieldsTwoColumns ==
    (/\ ~override
     /\ pc \in {"returned", "raised"})
    => \A e \in Collisions :
         LET k == map0[e][1]
             t == map0[e][2]
         IN  /\ pc = "returned"
             /\ DupeWarning(t) \in Elements(log)
             /\ Len(df) = Len(df0)
             /\ \E i, j \in DOMAIN df0 :
                    /\ i # j
                    /\ df0[i].name = t /\ df[i] = df0[i]
                    /\ df0[j].name = k /\ df[j] = [name |-> t, data |-> j]

\* A colliding rename went through: the pre-existing column and the renamed
\* one now share the target name.
C3_Witness ==
    /\ ~override
    /\ pc = "returned"
    /\ \E e \in Collisions :
          /\ map0[e][2] \notin KeySet(map0)
          /\ \E i, j \in DOMAIN df0 :
                /\ i # j
                /\ df0[i].name = map0[e][2] /\ df[i] = df0[i]
                /\ df0[j].name = map0[e][1] /\ df[j].name = map0[e][2]

(***************************************************************************)
(* Properties of pd_cols_remove_special_characters                         *)
(***************************************************************************)
\* The substitution the claim describes: every character that is a member
\* of the special string becomes repl, every other character is kept.
ReplaceMembers(name, special, repl) ==
    [i \in DOMAIN name |-> IF name[i] \in Elements(special) THEN repl ELSE name[i]]

\* C4: applying the sanitizer twice with the same arguments leaves the
\* column names as they were after applying it once.
C4_SecondPassChangesNothing ==
    (pc = "done") => (Columns(df) = Columns(after1))

\* C5: after a call that returns, on a table with a column, every targeted
\* column formerly named c is named c with each character that is a member
\* of remove_characters replaced by replace_char and every other character
\* kept.
C5_OnlyMembersAreReplaced ==
    (pc = "call2" /\ df0 # <<>>)
    => \A i \in DOMAIN df0 :
          df0[i].name \in Elements(TargetCols(df0, cols))
          => df[i].name = ReplaceMembers(df0[i].name, remove_characters, replace_char)

(***************************************************************************)
(* Properties of calc_col_lengths                                          *)
(***************************************************************************)
NonNull(values) == SelectSeq(values, LAMBDA v : ~IsNull(v))

\* Byte length of the debug-print form of a value: repr() of a string keeps
\* its two quote characters, repr() of an integer is its digits.
ReprBytes(v) ==
    IF v.kind = "str" THEN ToLiteralLen(v.runs) + 2 ELSE ToLiteralLen(AsStr(v))

\* Byte length of the debug-print form without the quote characters.
UnquotedBytes(v) == ToLiteralLen(AsStr(v))

\* C6 (as amended): every column with a non-null value has a width, and it
\* is at least the byte length of the longest literal representation of its
\* non-null values, the surrounding quote characters not counted.
C6_WidthCoversUnquotedLiteral ==
    (pc = "returned")
    => \A i \in DOMAIN df :
          NonNull(df[i].data) # <<>>
          => /\ df[i].name \in KeySet(col_lengths_map)
             /\ \A v \in Elements(NonNull(df[i].data)) :
                   Lookup(col_lengths_map, df[i].name) >= UnquotedBytes(v)

\* C6 (as claimed): the width is at least the byte length of the longest
\* literal representation, the quote characters of a textual value included.
C6_WidthCoversQuotedLiteral ==
    (pc = "returned")
    => \A i \in DOMAIN df :
          NonNull(df[i].data) # <<>>
          => /\ df[i].name \in KeySet(col_lengths_map)
             /\ \A v \in Elements(NonNull(df[i].data)) :
                   Lookup(col_lengths_map, df[i].name) >= ReprBytes(v)

\* A column of texts got a width above its longest unquoted literal (the
\* 1% buffer added a byte), next to a shorter value.
C6_Witness ==
    /\ pc = "returned"
    /\ \E i \in DOMAIN df :
          /\ \E v, w \in Elements(NonNull(df[i].data)) :
                /\ v.kind = "str"
                /\ UnquotedBytes(w) < UnquotedBytes(v)
                /\ Lookup(col_lengths_map, df[i].name) > UnquotedBytes(v)
          /\ \A v \in Elements(NonNull(df[i].data)) :
                Lookup(col_lengths_map, df[i].name) >= UnquotedBytes(v)

\* C8 (as amended): on a table with a row and a column every column has
\* exactly one entry, in column order; the entry of a column without
\* non-null values is 0 (its maximum is NaN, which int() refuses); the entry
\* of a column with a non-null value is 0 only when every non-null value is
\* the empty string.
C8_EveryColumnHasAnEntry ==
    (pc = "returned" /\ ~DfEmpty(df))
    => /\ Keys(col_lengths_map) = Columns(df)
       /\ \A i \in DOMAIN df :
            LET w == col_lengths_map[i][2]
            IN  /\ NonNull(df[i].data) = <<>> => w = 0
                /\ NonNull(df[i].data) # <<>> =>
                     ((w = 0) <=> \A v \in Elements(NonNull(df[i].data)) :
                                     v = StrVal(<<>>))

\* C8 (as claimed): a column without non-null values has no entry, every
\* column with a non-null value has one, and an entry is 0 only when the
\* maximum cannot be coerced to a number.
C8_AllNullColumnIsOmitted ==
    (pc = "returned" /\ ~DfEmpty(df))
    => \A i \in DOMAIN df :
          /\ NonNull(df[i].data) = <<>> => df[i].name \notin KeySet(col_lengths_map)
          /\ NonNull(df[i].data) # <<>> => df[i].name \in KeySet(col_lengths_map)
          /\ (df[i].name \in KeySet(col_lengths_map)
              /\ Lookup(col_lengths_map, df[i].name) = 0)
             => SeriesMax(LiteralLens(df[i].data)).nan

\* A table with an all-null column, entered as 0, beside a column with a
\* positive width.
C8_Witness ==
    /\ pc = "returned"
    /\ Len(df) = 2
    /\ NonNull(df[1].data) = <<>>
    /\ Len(df[1].data) > 0
    /\ col_lengths_map[1] = <<"p", 0>>
    /\ col_lengths_map[2][2] > 0

(***************************************************************************)
(* Properties of load_json                                                 *)
(***************************************************************************)
\* C7: if every line decodes, the caller receives exactly one value per
\* line, the i-th being the decoding of the i-th line; if some line does not
\* decode, the call raises at the first such line and the caller receives
\* nothing.
C7_OneValuePerLineOrNothing ==
    /\ pc = "returned" =>
          /\ ret.some
          /\ Len(ret.val) = Len(lines)
          /\ \A i \in DOMAIN lines :
                Loads(lines[i]).ok /\ ret.val[i] = Loads(lines[i]).val
    /\ pc = "raised" =>
          /\ err = "JSONDecodeError"
          /\ ~ret.some
          /\ ~Loads(lines[Len(lines)]).ok
          /\ \A i \in 1..(Len(lines) - 1) : Loads(lines[i]).ok
    /\ pc = "reading" => \A i \in DOMAIN lines : Loads(lines[i]).ok

\* Two lines that decode to different values were loaded in order.
C7_Witness ==
    /\ pc = "returned"
    /\ Len(lines) = 2
    /\ ret.val = <<JsonInt(10), JsonList(<<>>)>>

====
